---- MODULE Spec2Model ----
(***************************************************************************)
(* Retrieval and score-fusion core of backend/vector_retrieval.py          *)
(* (class VectorRetrieval), its call from the search endpoint of           *)
(* backend/main.py, and the attribute comparator of                        *)
(* backend/face_recognition_integration.py.                                *)
(*                                                                         *)
(* Numbers.  Similarity scores, fusion weights and combined scores are     *)
(* exact rationals, and so is the comparator's percentage; the rounding of *)
(* Python floats is not reproduced.                                        *)
(***************************************************************************)
EXTENDS Integers, Sequences, FiniteSets, TLC

VARIABLES
    index,                 \* the two Qdrant collections: [face, text] -> Seq(point)
    pc,                    \* per call: position of the calling thread
    face_embedding,        \* per call: None or Some(dimension of the face query vector)
    text_embedding,        \* per call: None or Some(dimension of the text query vector)
    gender,                \* per call: gender constraint, None or Some(string)
    age_min,               \* per call: age constraint, None or Some(integer)
    age_max,               \* per call: age constraint, None or Some(integer)
    height_min,            \* per call: height constraint, None or Some(integer)
    height_max,            \* per call: height constraint, None or Some(integer)
    w1,                    \* per call: raw face weight
    w2,                    \* per call: raw text weight
    top_n,                 \* per call: number of results wanted
    limit_per_collection,  \* per call: candidate pool limit per collection
    metadata_filter,       \* per call: the filter parallel_search built, None before
    future_face,           \* per call: the future of the submitted face search
    future_text,           \* per call: the future of the submitted text search
    face_results,          \* per call: face result list
    text_results,          \* per call: text result list
    combined_results,      \* per call: value returned to the caller
    raised,                \* per call: exception that left the call, or NONE
    searches,              \* per call: client.search calls issued, per collection
    search_failed,         \* per call: per collection, did client.search raise
    completion_order,      \* per call: the searches in the order they completed
    mp_record,             \* comparator: the missing person record
    uidb_record,           \* comparator: the unidentified body record
    scores,                \* comparator: the dict compare_physical_attributes returns
    abandoned,             \* per call: None, or Some(the searches in flight when the
                           \* caller gave the request up)
    tables,                \* record store: per table the pid column of its rows, in
                           \* the order of insertion
    helper,                \* record store: per DatabaseHelper, the add_* call it runs
    year                   \* record store: datetime.now().year, counted from 1

vars == <<index, pc, face_embedding, text_embedding, gender, age_min, age_max,
          height_min, height_max, w1, w2, top_n, limit_per_collection,
          metadata_filter, future_face, future_text, face_results,
          text_results, combined_results, raised, searches, search_failed,
          completion_order, mp_record, uidb_record, scores, abandoned,
          tables, helper, year>>

\* Python's None for a value that is otherwise a string
NONE == "None"
\* an optional number or vector: <<>> is None, <<v>> is the value v
None == <<>>
Some(v) == <<v>>

(***************************************************************************)
(* Bounds of the model                                                     *)
(***************************************************************************)
\* total number of entries in the two lists handed to combine_results directly
MaxLen == 3
\* top_n ranges over 0 .. MaxTopN (from -1 when combine_results is called directly)
MaxTopN == 3
\* limit_per_collection ranges over 1 .. MaxPool
MaxPool == 2
\* a collection of the index holds at most MaxStore points
MaxStore == 2
\* the record store holds at most MaxRows rows, over at most MaxYear years
MaxRows == 3
MaxYear == 2

(***************************************************************************)
(* Program constants                                                       *)
(***************************************************************************)
FaceDim == 512
TextDim == 1536
\* limit_per_collection of the call made by the search endpoint
EndpointPoolLimit == 50

Calls == {1, 2}

(***************************************************************************)
(* Numbers: exact rationals [num, den], in lowest terms, den > 0           *)
(***************************************************************************)
Abs(x) == IF x < 0 THEN -x ELSE x

RECURSIVE GCD(_, _)
GCD(a, b) == IF b = 0 THEN a ELSE GCD(b, a % b)

Rat(n, d) ==
    LET g == GCD(Abs(n), Abs(d))
        s == IF d < 0 THEN -1 ELSE 1
    IN  [num |-> s * (n \div g), den |-> s * (d \div g)]

\* the number written n/100 in decimal: Dec(90) is 0.9
Dec(n) == Rat(n, 100)
FromInt(n) == Rat(n, 1)
Zero == FromInt(0)

FAdd(a, b) == Rat(a.num * b.den + b.num * a.den, a.den * b.den)
FMul(a, b) == Rat(a.num * b.num, a.den * b.den)
FDiv(a, b) == Rat(a.num * b.den, a.den * b.num)
FLess(a, b) == a.num * b.den < b.num * a.den

(***************************************************************************)
(* Python list helpers                                                     *)
(***************************************************************************)
Min(a, b) == IF a < b THEN a ELSE b
Max(a, b) == IF a > b THEN a ELSE b

\* s[:n], with Python's meaning of a negative n
PySlicePrefix(s, n) ==
    IF n >= 0 THEN SubSeq(s, 1, Min(n, Len(s)))
    ELSE SubSeq(s, 1, Max(Len(s) + n, 0))

(***************************************************************************)
(* combine_results                                                         *)
(***************************************************************************)
\* w1_norm and w2_norm
NormalizeWeightsNoDefault(a, b) ==
    LET total_weight == FAdd(a, b)
    IN  [w1_norm |-> IF total_weight # Zero THEN FDiv(a, total_weight) ELSE Zero,
         w2_norm |-> IF total_weight # Zero THEN FDiv(b, total_weight) ELSE Zero]

NormalizeWeightsEqual(a, b) ==
    [w1_norm |-> Dec(50), w2_norm |-> Dec(50)]

NormalizeWeights(a, b) ==
    LET total_weight == FAdd(a, b)
    IN  [w1_norm |-> IF FLess(Zero, total_weight) THEN FDiv(a, total_weight) ELSE Dec(50),
         w2_norm |-> IF FLess(Zero, total_weight) THEN FDiv(b, total_weight) ELSE Dec(50)]

HasKey(combined_scores, pid) ==
    \E i \in 1..Len(combined_scores) : combined_scores[i].pid = pid

NewAccumulatorSameScore(result) ==
    [pid |-> result.pid, face_score |-> result.score, text_score |-> result.score,
     age |-> result.age, gender |-> result.gender, height_cm |-> result.height_cm]

NewAccumulator(result) ==
    [pid |-> result.pid, face_score |-> Zero, text_score |-> Zero,
     age |-> result.age, gender |-> result.gender, height_cm |-> result.height_cm]

AddResultOverwriteDisplay(combined_scores, result, field) ==
    LET withKey == IF HasKey(combined_scores, result.pid)
                   THEN combined_scores
                   ELSE Append(combined_scores, NewAccumulator(result))
    IN  [i \in 1..Len(withKey) |->
            IF withKey[i].pid = result.pid
            THEN [withKey[i] EXCEPT ![field] = result.score, !.age = result.age,
                                    !.gender = result.gender,
                                    !.height_cm = result.height_cm]
            ELSE withKey[i]]

AddResultKeepFirstScore(combined_scores, result, field) ==
    IF HasKey(combined_scores, result.pid) /\ \E i \in 1..Len(combined_scores) :
          combined_scores[i].pid = result.pid /\ combined_scores[i][field] # Zero
    THEN combined_scores
    ELSE LET withKey == IF HasKey(combined_scores, result.pid)
                        THEN combined_scores
                        ELSE Append(combined_scores, NewAccumulator(result))
         IN  [i \in 1..Len(withKey) |->
                 IF withKey[i].pid = result.pid
                 THEN [withKey[i] EXCEPT ![field] = result.score]
                 ELSE withKey[i]]

\* one iteration of either loop over a result list: the dict keeps insertion order
AddResult(combined_scores, result, field) ==
    LET withKey == IF HasKey(combined_scores, result.pid)
                   THEN combined_scores
                   ELSE Append(combined_scores, NewAccumulator(result))
    IN  [i \in 1..Len(withKey) |->
            IF withKey[i].pid = result.pid
            THEN [withKey[i] EXCEPT ![field] = result.score]
            ELSE withKey[i]]

RECURSIVE AddResults(_, _, _)
AddResults(combined_scores, results, field) ==
    IF results = <<>> THEN combined_scores
    ELSE AddResults(AddResult(combined_scores, Head(results), field),
                    Tail(results), field)

CombinedScoresIntersection(face, text) ==
    SelectSeq(AddResults(AddResults(<<>>, face, "face_score"), text, "text_score"),
              LAMBDA data : /\ \E i \in 1..Len(face) : face[i].pid = data.pid
                            /\ \E i \in 1..Len(text) : text[i].pid = data.pid)

\* the dict after both loops
CombinedScores(face, text) ==
    AddResults(AddResults(<<>>, face, "face_score"), text, "text_score")

CombinedScoreFaceOnly(wn, data) ==
    FMul(wn.w1_norm, data.face_score)

CombinedScore(wn, data) ==
    FAdd(FMul(wn.w1_norm, data.face_score), FMul(wn.w2_norm, data.text_score))

FinalResult(wn, data) ==
    [pid |-> data.pid,
     combined_score |-> CombinedScore(wn, data),
     face_score |-> data.face_score,
     text_score |-> data.text_score,
     age |-> data.age,
     gender |-> data.gender,
     height_cm |-> data.height_cm]

\* list.sort(key = combined_score, reverse = True): stable, descending
RECURSIVE InsertDesc(_, _)
InsertDesc(sorted, x) ==
    IF sorted = <<>> THEN <<x>>
    ELSE IF FLess(Head(sorted).combined_score, x.combined_score)
         THEN <<x>> \o sorted
         ELSE <<Head(sorted)>> \o InsertDesc(Tail(sorted), x)

RECURSIVE SortFrom(_, _)
SortFrom(sorted, rest) ==
    IF rest = <<>> THEN sorted
    ELSE SortFrom(InsertDesc(sorted, Head(rest)), Tail(rest))

SortUnsorted(final_results) == final_results

RECURSIVE InsertDescBeforeEqual(_, _)
InsertDescBeforeEqual(sorted, x) ==
    IF sorted = <<>> THEN <<x>>
    ELSE IF ~FLess(x.combined_score, Head(sorted).combined_score)
         THEN <<x>> \o sorted
         ELSE <<Head(sorted)>> \o InsertDescBeforeEqual(Tail(sorted), x)

RECURSIVE SortFromBeforeEqual(_, _)
SortFromBeforeEqual(sorted, rest) ==
    IF rest = <<>> THEN sorted
    ELSE SortFromBeforeEqual(InsertDescBeforeEqual(sorted, Head(rest)), Tail(rest))

SortTiesReversed(final_results) == SortFromBeforeEqual(<<>>, final_results)

SortByCombinedScoreDesc(final_results) == SortFrom(<<>>, final_results)

TruncateOneMore(final_results, n) == PySlicePrefix(final_results, n + 1)

Truncate(final_results, n) == PySlicePrefix(final_results, n)

combine_results(face, text, a, b, n) ==
    LET wn == NormalizeWeights(a, b)
        combined_scores == CombinedScores(face, text)
        final_results == [i \in 1..Len(combined_scores) |->
                             FinalResult(wn, combined_scores[i])]
    IN  Truncate(SortByCombinedScoreDesc(final_results), n)

(***************************************************************************)
(* create_metadata_filter                                                  *)
(***************************************************************************)
\* a FieldCondition; the parts it does not use are None
MatchCondition(key, value) == [key |-> key, match |-> Some(value), gte |-> None, lte |-> None]
RangeCondition(key, lo, hi) == [key |-> key, match |-> None, gte |-> lo, lte |-> hi]

\* Python truthiness of an optional string: None and "" are false
Truthy(str) == str # None /\ str[1] # ""

create_metadata_filter_empty_must(g, amin, amax, hmin, hmax) ==
    LET c1 == IF Truthy(g) THEN <<MatchCondition("gender", g[1])>> ELSE <<>>
        c2 == IF amin # None \/ amax # None
              THEN <<RangeCondition("age", amin, amax)>> ELSE <<>>
        c3 == IF hmin # None \/ hmax # None
              THEN <<RangeCondition("height_cm", hmin, hmax)>> ELSE <<>>
    IN  Some(c1 \o c2 \o c3)

create_metadata_filter_truthy_bounds(g, amin, amax, hmin, hmax) ==
    LET given(x) == x # None /\ x[1] # 0
        bound(x) == IF given(x) THEN x ELSE None
        c1 == IF Truthy(g) THEN <<MatchCondition("gender", g[1])>> ELSE <<>>
        c2 == IF amin # None \/ amax # None
              THEN <<RangeCondition("age", bound(amin), bound(amax))>> ELSE <<>>
        c3 == IF hmin # None \/ hmax # None
              THEN <<RangeCondition("height_cm", bound(hmin), bound(hmax))>> ELSE <<>>
        must_conditions == c1 \o c2 \o c3
    IN  IF must_conditions = <<>> THEN None ELSE Some(must_conditions)

\* None (no filter) or Some(the sequence of must conditions).  The parameters
\* g, amin, amax, hmin, hmax are gender, age_min, age_max, height_min, height_max.
create_metadata_filter(g, amin, amax, hmin, hmax) ==
    LET c1 == IF Truthy(g) THEN <<MatchCondition("gender", g[1])>> ELSE <<>>
        c2 == IF amin # None \/ amax # None
              THEN <<RangeCondition("age", amin, amax)>> ELSE <<>>
        c3 == IF hmin # None \/ hmax # None
              THEN <<RangeCondition("height_cm", hmin, hmax)>> ELSE <<>>
        must_conditions == c1 \o c2 \o c3
    IN  IF must_conditions = <<>> THEN None ELSE Some(must_conditions)

(***************************************************************************)
(* compare_physical_attributes (face_recognition_integration.py)           *)
(***************************************************************************)
\* Python truthiness of an optional integer: None and 0 are false
TruthyInt(n) == n # None /\ n[1] # 0

\* str.lower() on the strings the records of the model carry
Lower(str) ==
    CASE str = "Male" -> "male"
      [] str = "Female" -> "female"
      [] str = "Black" -> "black"
      [] str = "Brown" -> "brown"
      [] OTHER -> str

\* a dict with no key
EmptyDict == [k \in {} |-> TRUE]

\* the keys the final sums count: those ending in "_match"
MatchKeys == {"age_match", "gender_match", "height_match", "hair_color_match",
              "eye_color_match"}

\* "Age comparison (within 5 years)", "Height comparison (within 5cm)"
NumericScores(a, b, match_key, difference_key) ==
    IF TruthyInt(a) /\ TruthyInt(b)
    THEN LET diff == Abs(a[1] - b[1])
         IN  (match_key :> (diff <= 5)) @@ (difference_key :> diff)
    ELSE EmptyDict

\* "Gender match": the two strings compared as they are
GenderScores(a, b) ==
    IF Truthy(a) /\ Truthy(b) THEN "gender_match" :> (a[1] = b[1]) ELSE EmptyDict

\* "Hair color match", "Eye color match": compared after lower()
ColorScores(a, b, match_key) ==
    IF Truthy(a) /\ Truthy(b)
    THEN match_key :> (Lower(a[1]) = Lower(b[1]))
    ELSE EmptyDict

OverallOfAllFields(flags) ==
    LET matches == Cardinality({k \in DOMAIN flags \cap MatchKeys : flags[k]})
    IN  FMul(FDiv(FromInt(matches), FromInt(Cardinality(MatchKeys))), FromInt(100))

\* "Calculate overall attribute match percentage"
Overall(flags) ==
    LET matches == Cardinality({k \in DOMAIN flags \cap MatchKeys : flags[k]})
        total == Cardinality(DOMAIN flags \cap MatchKeys)
    IN  IF total > 0
        THEN FMul(FDiv(FromInt(matches), FromInt(total)), FromInt(100))
        ELSE Zero

compare_physical_attributes(mp, uidb) ==
    LET flags == NumericScores(mp.age, uidb.estimated_age, "age_match", "age_difference")
                 @@ GenderScores(mp.gender, uidb.gender)
                 @@ NumericScores(mp.height_cm, uidb.height_cm,
                                  "height_match", "height_difference")
                 @@ ColorScores(mp.hair_color, uidb.hair_color, "hair_color_match")
                 @@ ColorScores(mp.eye_color, uidb.eye_color, "eye_color_match")
    IN  flags @@ ("overall_match_percentage" :> Overall(flags))

(***************************************************************************)
(* The similarity index (Qdrant), as the searches use it                   *)
(***************************************************************************)
face_collection == "face_embeddings"
text_collection == "text_embeddings"

\* vector width each collection was created with
CollectionWidth(collection) ==
    IF collection = face_collection THEN FaceDim ELSE TextDim

ConditionHolds(cond, point) ==
    LET v == point[cond.key]
    IN  /\ cond.match # None => v = cond.match[1]
        /\ cond.gte # None => v >= cond.gte[1]
        /\ cond.lte # None => v <= cond.lte[1]

FilterAccepts(query_filter, point) ==
    \/ query_filter = None
    \/ \A i \in 1..Len(query_filter[1]) : ConditionHolds(query_filter[1][i], point)

RECURSIVE InsertPointDesc(_, _)
InsertPointDesc(sorted, x) ==
    IF sorted = <<>> THEN <<x>>
    ELSE IF FLess(Head(sorted).score, x.score)
         THEN <<x>> \o sorted
         ELSE <<Head(sorted)>> \o InsertPointDesc(Tail(sorted), x)

RECURSIVE RankPoints(_, _)
RankPoints(sorted, rest) ==
    IF rest = <<>> THEN sorted
    ELSE RankPoints(InsertPointDesc(sorted, Head(rest)), Tail(rest))

\* client.search on a reachable index with a vector of the collection's width:
\* the points the filter accepts, by descending similarity, at most limit of them
ClientSearch(points, query_filter, limit) ==
    LET accepted == SelectSeq(points, LAMBDA p : FilterAccepts(query_filter, p))
    IN  PySlicePrefix(RankPoints(<<>>, accepted), limit)

\* the loop that formats the hits of one search
FormatResults(hits, source) ==
    [i \in 1..Len(hits) |->
        [pid |-> hits[i].pid, score |-> hits[i].score, age |-> hits[i].age,
         gender |-> hits[i].gender, height_cm |-> hits[i].height_cm,
         source |-> source]]

\* search_face_embeddings / search_text_embeddings: the value returned.
\* client.search raises when the index is unreachable or the query vector has
\* not the collection's width; the except clause turns that into [].
SearchRaises(collection, query_embedding, reachable) ==
    ~reachable \/ query_embedding[1] # CollectionWidth(collection)

SearchEmbeddings(collection, source, query_embedding, limit, query_filter, reachable) ==
    IF SearchRaises(collection, query_embedding, reachable)
    THEN <<>>
    ELSE FormatResults(ClientSearch(index[source], query_filter, limit), source)

search_face_embeddings(query_embedding, limit, query_filter, reachable) ==
    SearchEmbeddings(face_collection, "face", query_embedding, limit, query_filter, reachable)

search_text_embeddings(query_embedding, limit, query_filter, reachable) ==
    SearchEmbeddings(text_collection, "text", query_embedding, limit, query_filter, reachable)

(***************************************************************************)
(* Inputs of the model                                                     *)
(***************************************************************************)
PIDs == {"MP-1", "MP-2", "UIDB-1"}
Scores == {Dec(60), Dec(90)}

\* the case record behind a PID: its display scalars
Person(pid) ==
    IF pid = "MP-1" THEN [age |-> 30, gender |-> "Male", height_cm |-> 170]
    ELSE IF pid = "MP-2" THEN [age |-> 45, gender |-> "Female", height_cm |-> 160]
    ELSE [age |-> 33, gender |-> "Male", height_cm |-> 172]

\* similarity of the stored vector of pid to the query vector, per collection
StoredScore(space, pid) ==
    IF space = "face"
    THEN (IF pid = "MP-1" THEN Dec(90) ELSE Dec(60))
    ELSE (IF pid = "MP-1" THEN Dec(50) ELSE IF pid = "MP-2" THEN Dec(90) ELSE Dec(60))

StoredPoint(space, pid) ==
    [pid |-> pid, score |-> StoredScore(space, pid), age |-> Person(pid).age,
     gender |-> Person(pid).gender, height_cm |-> Person(pid).height_cm]

PidOrder == <<"MP-1", "MP-2", "UIDB-1">>

\* a collection holding the points of the PIDs in S, in insertion order
Collection(space, S) ==
    LET kept == SelectSeq(PidOrder, LAMBDA p : p \in S)
    IN  [i \in 1..Len(kept) |-> StoredPoint(space, kept[i])]

Collections(space) ==
    {Collection(space, S) : S \in {T \in SUBSET PIDs : Cardinality(T) <= MaxStore}}

\* query vectors: absent, of the face model's width, of the text model's width
Embeddings == {None, Some(FaceDim), Some(TextDim)}

\* (w1, w2) pairs of search_and_combine
CallWeights == {<<Dec(50), Dec(50)>>, <<Dec(60), Dec(40)>>, <<Zero, Zero>>, <<Zero, Dec(100)>>,
                <<Dec(100), Zero>>}
TopNs == 0..MaxTopN
PoolLimits == 1..MaxPool

\* scalar constraints of a call: none, or a gender, an age range and a height cap
NoConstraints ==
    [gender |-> None, age_min |-> None, age_max |-> None,
     height_min |-> None, height_max |-> None]
CallConstraints ==
    {NoConstraints,
     [gender |-> Some("Male"), age_min |-> Some(25), age_max |-> Some(35),
      height_min |-> None, height_max |-> Some(171)]}

NoFuture == [state |-> "none", result |-> <<>>]

(***************************************************************************)
(* search_and_combine, one thread of control per call plus its two workers *)
(***************************************************************************)
(***************************************************************************)
(* db_helper.py: the record store and generate_pid                         *)
(***************************************************************************)
TableNames == {"missing_persons", "unidentified_bodies", "preliminary_uidb_reports"}

\* the DatabaseHelper instances at work on one database file, each with its own
\* connection
Helpers == {1, 2}

prefix_map(table_name) ==
    IF table_name = "missing_persons" THEN "MP"
    ELSE IF table_name = "unidentified_bodies" THEN "UIDB"
    ELSE IF table_name = "preliminary_uidb_reports" THEN "PUIDB"
    ELSE "UNK"

\* the width of the number in a PID: {new_num:05d}
PidWidth == 5

\* the decimal digits of a natural number
RECURSIVE Digits(_)
Digits(n) == IF n < 10 THEN <<n>> ELSE Digits(n \div 10) \o <<n % 10>>

\* f"{n:05d}": padded with zeros on the left to PidWidth digits, never cut
ZeroPadded(n) ==
    LET d == Digits(n)
    IN  [i \in 1..(PidWidth - Len(d)) |-> 0] \o d

\* int(digits)
RECURSIVE ParseInt(_)
ParseInt(digits) ==
    IF digits = <<>> THEN 0
    ELSE 10 * ParseInt(SubSeq(digits, 1, Len(digits) - 1)) + digits[Len(digits)]

\* f"{prefix}-{year}-{new_num:05d}", kept as its three parts
FormatPid(prefix, y, n) == [prefix |-> prefix, year |-> y, digits |-> ZeroPadded(n)]

\* string order of two digit strings (the order ORDER BY pid uses)
RECURSIVE StringLess(_, _)
StringLess(a, b) ==
    IF b = <<>> THEN FALSE
    ELSE IF a = <<>> THEN TRUE
    ELSE IF Head(a) # Head(b) THEN Head(a) < Head(b)
    ELSE StringLess(Tail(a), Tail(b))

\* WHERE pid LIKE '{prefix}-{year}-%' over the pid column of a table
PidsLike(column, prefix, y) ==
    {column[i] : i \in {j \in 1..Len(column) :
                          column[j].prefix = prefix /\ column[j].year = y}}

\* generate_pid(table_name) on the table as the SELECT sees it, in year y
generate_pid(table_name, column, y) ==
    LET prefix == prefix_map(table_name)
        like == PidsLike(column, prefix, y)
        new_num == IF like # {}
                   THEN LET result == CHOOSE pid \in like :
                                \A other \in like : ~StringLess(pid.digits, other.digits)
                            last_num == ParseInt(result.digits)
                        IN  last_num + 1
                   ELSE 1
    IN  FormatPid(prefix, y, new_num)

\* the pid column is declared unique: an INSERT of a pid the table holds fails
\* with sqlite3.IntegrityError
ViolatesUnique(column, pid) == \E i \in 1..Len(column) : column[i] = pid

IdleHelper == [state |-> "idle", table_name |-> "", pid |-> None, returned |-> None]

\* an empty database, no add_* call running
EmptyStore ==
    /\ tables = [t \in TableNames |-> <<>>]
    /\ helper = [h \in Helpers |-> IdleHelper]
    /\ year = 1

\* the comparator's state, which the retrieval never touches
comparator == <<mp_record, uidb_record, scores>>
\* what lies outside the calls: the index, and the callers' giving up
store == <<tables, helper, year>>
environment == <<index, abandoned, store>>
inputs == <<environment, face_embedding, text_embedding, gender, age_min, age_max,
            height_min, height_max, w1, w2, top_n, limit_per_collection, comparator>>
workers == <<metadata_filter, future_face, future_text, searches, search_failed,
             completion_order>>

ValidateNothing(c) ==
    /\ pc[c] = "validate"
    /\ pc' = [pc EXCEPT ![c] = "submit_face"]
    /\ UNCHANGED <<inputs, workers, face_results, text_results, combined_results, raised>>

\* "Validate inputs"
Validate(c) ==
    /\ pc[c] = "validate"
    /\ IF face_embedding[c] = None /\ text_embedding[c] = None
       THEN /\ raised' = [raised EXCEPT ![c] = "ValueError"]
            /\ pc' = [pc EXCEPT ![c] = "raised"]
       ELSE /\ pc' = [pc EXCEPT ![c] = "submit_face"]
            /\ UNCHANGED raised
    /\ UNCHANGED <<inputs, workers, face_results, text_results, combined_results>>

\* the scalar constraints search_and_combine hands to parallel_search
PassedConstraints(c) ==
    [gender |-> None, age_min |-> None, age_max |-> None,
     height_min |-> None, height_max |-> None]

\* parallel_search: "Create metadata filter", from the constraints it was handed
CallFilter(c) ==
    LET p == PassedConstraints(c)
    IN  create_metadata_filter(p.gender, p.age_min, p.age_max, p.height_min, p.height_max)

SubmitFaceAlways(c) ==
    /\ pc[c] = "submit_face"
    /\ metadata_filter' = [metadata_filter EXCEPT ![c] = CallFilter(c)]
    /\ future_face' = [future_face EXCEPT ![c].state = "pending"]
    /\ pc' = [pc EXCEPT ![c] = "submit_text"]
    /\ UNCHANGED <<inputs, completion_order, future_text, searches, search_failed,
                   face_results, text_results, combined_results, raised>>

\* parallel_search: the filter is built, then
\* "Submit face search if embedding provided"
SubmitFace(c) ==
    /\ pc[c] = "submit_face"
    /\ metadata_filter' = [metadata_filter EXCEPT ![c] = CallFilter(c)]
    /\ IF face_embedding[c] # None
       THEN future_face' = [future_face EXCEPT ![c].state = "pending"]
       ELSE UNCHANGED future_face
    /\ pc' = [pc EXCEPT ![c] = "submit_text"]
    /\ UNCHANGED <<inputs, completion_order, future_text, searches, search_failed, face_results,
                   text_results, combined_results, raised>>

\* parallel_search: "Submit text search if embedding provided"
SubmitText(c) ==
    /\ pc[c] = "submit_text"
    /\ IF text_embedding[c] # None
       THEN future_text' = [future_text EXCEPT ![c].state = "pending"]
       ELSE UNCHANGED future_text
    /\ pc' = [pc EXCEPT ![c] = "collect_face"]
    /\ UNCHANGED <<inputs, completion_order, metadata_filter, future_face, searches, search_failed, face_results,
                   text_results, combined_results, raised>>

\* a pool worker takes the face search and issues client.search
StartFaceSearch(c) ==
    /\ future_face[c].state = "pending"
    /\ future_face' = [future_face EXCEPT ![c].state = "running"]
    /\ searches' = [searches EXCEPT ![c].face = @ + 1]
    /\ UNCHANGED <<inputs, completion_order, metadata_filter, pc, future_text, search_failed, face_results,
                   text_results, combined_results, raised>>

FinishFaceSearchPropagate(c) ==
    /\ future_face[c].state = "running"
    /\ \E reachable \in BOOLEAN :
        /\ future_face' = [future_face EXCEPT ![c] =
              [state |-> "done",
               result |-> search_face_embeddings(face_embedding[c],
                              limit_per_collection[c], metadata_filter[c], reachable)]]
        /\ search_failed' = [search_failed EXCEPT ![c].face =
              SearchRaises(face_collection, face_embedding[c], reachable)]
        /\ completion_order' = [completion_order EXCEPT ![c] = Append(@, "face")]
        /\ IF SearchRaises(face_collection, face_embedding[c], reachable)
           THEN /\ pc' = [pc EXCEPT ![c] = "raised"]
                /\ raised' = [raised EXCEPT ![c] = "Exception"]
           ELSE UNCHANGED <<pc, raised>>
    /\ UNCHANGED <<inputs, metadata_filter, future_text, searches, face_results,
                   text_results, combined_results>>

\* client.search answers or raises; search_face_embeddings returns.  (Its except
\* clause catches every Exception, so future.result() in parallel_search never
\* raises and the except clause around it is never entered.)
FinishFaceSearch(c) ==
    /\ future_face[c].state = "running"
    /\ \E reachable \in BOOLEAN :
        /\ future_face' = [future_face EXCEPT ![c] =
              [state |-> "done",
               result |-> search_face_embeddings(face_embedding[c],
                              limit_per_collection[c], metadata_filter[c], reachable)]]
        /\ search_failed' = [search_failed EXCEPT ![c].face =
              SearchRaises(face_collection, face_embedding[c], reachable)]
        /\ completion_order' = [completion_order EXCEPT ![c] = Append(@, "face")]
    /\ UNCHANGED <<inputs, metadata_filter, pc, future_text, searches, face_results,
                   text_results, combined_results, raised>>

\* a pool worker takes the text search and issues client.search
StartTextSearch(c) ==
    /\ future_text[c].state = "pending"
    /\ future_text' = [future_text EXCEPT ![c].state = "running"]
    /\ searches' = [searches EXCEPT ![c].text = @ + 1]
    /\ UNCHANGED <<inputs, completion_order, metadata_filter, pc, future_face, search_failed, face_results,
                   text_results, combined_results, raised>>

FinishTextSearchRetry(c) ==
    /\ future_text[c].state = "running"
    /\ \E reachable \in BOOLEAN :
        /\ future_text' = [future_text EXCEPT ![c] =
              IF SearchRaises(text_collection, text_embedding[c], reachable)
              THEN [state |-> "pending", result |-> <<>>]
              ELSE [state |-> "done",
                    result |-> search_text_embeddings(text_embedding[c],
                                   limit_per_collection[c], metadata_filter[c], reachable)]]
        /\ search_failed' = [search_failed EXCEPT ![c].text =
              SearchRaises(text_collection, text_embedding[c], reachable)]
        /\ completion_order' = [completion_order EXCEPT ![c] = Append(@, "text")]
    /\ UNCHANGED <<inputs, metadata_filter, pc, future_face, searches, face_results,
                   text_results, combined_results, raised>>

\* client.search answers or raises; search_text_embeddings returns
FinishTextSearch(c) ==
    /\ future_text[c].state = "running"
    /\ \E reachable \in BOOLEAN :
        /\ future_text' = [future_text EXCEPT ![c] =
              [state |-> "done",
               result |-> search_text_embeddings(text_embedding[c],
                              limit_per_collection[c], metadata_filter[c], reachable)]]
        /\ search_failed' = [search_failed EXCEPT ![c].text =
              SearchRaises(text_collection, text_embedding[c], reachable)]
        /\ completion_order' = [completion_order EXCEPT ![c] = Append(@, "text")]
    /\ UNCHANGED <<inputs, metadata_filter, pc, future_face, searches, face_results,
                   text_results, combined_results, raised>>

CollectFaceNoWait(c) ==
    /\ pc[c] = "collect_face"
    /\ IF future_face[c].state = "done"
       THEN face_results' = [face_results EXCEPT ![c] = future_face[c].result]
       ELSE UNCHANGED face_results
    /\ pc' = [pc EXCEPT ![c] = "collect_text"]
    /\ UNCHANGED <<inputs, workers, text_results, combined_results, raised>>

\* "Collect results": future.result() of the face future, if it was submitted
CollectFace(c) ==
    /\ pc[c] = "collect_face"
    /\ \/ /\ future_face[c].state = "none"
          /\ UNCHANGED face_results
       \/ /\ future_face[c].state = "done"
          /\ face_results' = [face_results EXCEPT ![c] = future_face[c].result]
    /\ pc' = [pc EXCEPT ![c] = "collect_text"]
    /\ UNCHANGED <<inputs, workers, text_results, combined_results, raised>>

CollectTextShared(c) ==
    /\ pc[c] = "collect_text"
    /\ \/ /\ future_text[c].state = "none"
          /\ UNCHANGED text_results
       \/ /\ future_text[c].state = "done"
          /\ text_results' = [d \in Calls |-> future_text[c].result]
    /\ pc' = [pc EXCEPT ![c] = "shutdown"]
    /\ UNCHANGED <<inputs, workers, face_results, combined_results, raised>>

\* "Collect results": future.result() of the text future, if it was submitted
CollectText(c) ==
    /\ pc[c] = "collect_text"
    /\ \/ /\ future_text[c].state = "none"
          /\ UNCHANGED text_results
       \/ /\ future_text[c].state = "done"
          /\ text_results' = [text_results EXCEPT ![c] = future_text[c].result]
    /\ pc' = [pc EXCEPT ![c] = "shutdown"]
    /\ UNCHANGED <<inputs, workers, face_results, combined_results, raised>>

Settled(future) == future.state \in {"none", "done"}

\* leaving the with block: executor.shutdown(wait=True)
Shutdown(c) ==
    /\ pc[c] = "shutdown"
    /\ Settled(future_face[c])
    /\ Settled(future_text[c])
    /\ pc' = [pc EXCEPT ![c] = "combine"]
    /\ UNCHANGED <<inputs, workers, face_results, text_results, combined_results, raised>>

CombineRaiseOnEmpty(c) ==
    /\ pc[c] = "combine"
    /\ IF face_results[c] = <<>> /\ text_results[c] = <<>>
       THEN /\ raised' = [raised EXCEPT ![c] = "ValueError"]
            /\ pc' = [pc EXCEPT ![c] = "raised"]
            /\ UNCHANGED combined_results
       ELSE /\ combined_results' = [combined_results EXCEPT ![c] =
                  combine_results(face_results[c], text_results[c], w1[c], w2[c], top_n[c])]
            /\ pc' = [pc EXCEPT ![c] = "done"]
            /\ UNCHANGED raised
    /\ UNCHANGED <<inputs, workers, face_results, text_results>>

CombineInCompletionOrder(c) ==
    /\ pc[c] = "combine"
    /\ combined_results' = [combined_results EXCEPT ![c] =
          IF completion_order[c] # <<>> /\ Head(completion_order[c]) = "text"
          THEN LET wn == NormalizeWeights(w1[c], w2[c])
                   combined_scores ==
                       AddResults(AddResults(<<>>, text_results[c], "text_score"),
                                  face_results[c], "face_score")
                   final_results == [i \in 1..Len(combined_scores) |->
                                        FinalResult(wn, combined_scores[i])]
               IN  Truncate(SortByCombinedScoreDesc(final_results), top_n[c])
          ELSE combine_results(face_results[c], text_results[c], w1[c], w2[c], top_n[c])]
    /\ pc' = [pc EXCEPT ![c] = "done"]
    /\ UNCHANGED <<inputs, workers, face_results, text_results, raised>>

\* "Combine results" and return them
Combine(c) ==
    /\ pc[c] = "combine"
    /\ combined_results' = [combined_results EXCEPT ![c] =
          combine_results(face_results[c], text_results[c], w1[c], w2[c], top_n[c])]
    /\ pc' = [pc EXCEPT ![c] = "done"]
    /\ UNCHANGED <<inputs, workers, face_results, text_results, raised>>

\* values of a call that is never made
IdleInputs == [face_embedding |-> None, text_embedding |-> None,
               w1 |-> Dec(50), w2 |-> Dec(50),
               top_n |-> 10, limit_per_collection |-> 50]

\* nothing has run yet; the calls in active are at position start, the others idle
Fresh(active, start) ==
    /\ pc = [c \in Calls |-> IF c \in active THEN start ELSE "idle"]
    /\ metadata_filter = [c \in Calls |-> None]
    /\ future_face = [c \in Calls |-> NoFuture]
    /\ future_text = [c \in Calls |-> NoFuture]
    /\ combined_results = [c \in Calls |-> <<>>]
    /\ raised = [c \in Calls |-> NONE]
    /\ searches = [c \in Calls |-> [face |-> 0, text |-> 0]]
    /\ search_failed = [c \in Calls |-> [face |-> FALSE, text |-> FALSE]]
    /\ completion_order = [c \in Calls |-> <<>>]
    /\ abandoned = [c \in Calls |-> None]
    /\ EmptyStore

\* records of the comparator: every field may be None
NoRecord(age_key) ==
    (age_key :> None) @@ [gender |-> None, height_cm |-> None,
                          hair_color |-> None, eye_color |-> None]

\* compare_physical_attributes is not called
NoComparison ==
    /\ mp_record = NoRecord("age")
    /\ uidb_record = NoRecord("estimated_age")
    /\ scores = EmptyDict

\* the calls in active carry the scalar constraints k
Constrained(active, k) ==
    /\ gender = [c \in Calls |-> IF c \in active THEN k.gender ELSE None]
    /\ age_min = [c \in Calls |-> IF c \in active THEN k.age_min ELSE None]
    /\ age_max = [c \in Calls |-> IF c \in active THEN k.age_max ELSE None]
    /\ height_min = [c \in Calls |-> IF c \in active THEN k.height_min ELSE None]
    /\ height_max = [c \in Calls |-> IF c \in active THEN k.height_max ELSE None]

\* one call of search_and_combine, on any index and any arguments
Init ==
    /\ index \in [face : Collections("face"), text : Collections("text")]
    /\ \E k \in CallConstraints : Constrained({1}, k)
    /\ \E fe \in Embeddings, te \in Embeddings, w \in CallWeights,
          n \in TopNs, l \in PoolLimits :
        /\ face_embedding = [c \in Calls |-> IF c = 1 THEN fe ELSE IdleInputs.face_embedding]
        /\ text_embedding = [c \in Calls |-> IF c = 1 THEN te ELSE IdleInputs.text_embedding]
        /\ w1 = [c \in Calls |-> IF c = 1 THEN w[1] ELSE IdleInputs.w1]
        /\ w2 = [c \in Calls |-> IF c = 1 THEN w[2] ELSE IdleInputs.w2]
        /\ top_n = [c \in Calls |-> IF c = 1 THEN n ELSE IdleInputs.top_n]
        /\ limit_per_collection =
              [c \in Calls |-> IF c = 1 THEN l ELSE IdleInputs.limit_per_collection]
    /\ face_results = [c \in Calls |-> <<>>]
    /\ text_results = [c \in Calls |-> <<>>]
    /\ Fresh({1}, "validate")
    /\ NoComparison

Next ==
    \E c \in Calls :
        \/ Validate(c)
        \/ SubmitFace(c)
        \/ SubmitText(c)
        \/ StartFaceSearch(c)
        \/ FinishFaceSearch(c)
        \/ StartTextSearch(c)
        \/ FinishTextSearch(c)
        \/ CollectFace(c)
        \/ CollectText(c)
        \/ Shutdown(c)
        \/ Combine(c)

Spec == Init /\ [][Next]_vars

(***************************************************************************)
(* search_and_combine called twice with the same arguments, the two calls  *)
(* running one after the other or overlapping                              *)
(***************************************************************************)
TwiceEmbeddings == {<<Some(FaceDim), None>>, <<None, Some(TextDim)>>,
                    <<Some(FaceDim), Some(TextDim)>>}
TwiceConstraints == CallConstraints \ {NoConstraints}
TwiceWeights == {<<Dec(50), Dec(50)>>, <<Dec(60), Dec(40)>>}
TwiceTopNs == {1, MaxTopN}

InitTwice ==
    /\ index \in [face : Collections("face"), text : Collections("text")]
    /\ \E k \in TwiceConstraints : Constrained(Calls, k)
    /\ \E e \in TwiceEmbeddings, w \in TwiceWeights, n \in TwiceTopNs :
        /\ face_embedding = [c \in Calls |-> e[1]]
        /\ text_embedding = [c \in Calls |-> e[2]]
        /\ w1 = [c \in Calls |-> w[1]]
        /\ w2 = [c \in Calls |-> w[2]]
        /\ top_n = [c \in Calls |-> n]
    /\ limit_per_collection = [c \in Calls |-> MaxPool]
    /\ face_results = [c \in Calls |-> <<>>]
    /\ text_results = [c \in Calls |-> <<>>]
    /\ Fresh(Calls, "validate")
    /\ NoComparison

SpecTwice == InitTwice /\ [][Next]_vars

(***************************************************************************)
(* two calls of search_and_combine on one VectorRetrieval instance, each   *)
(* with arguments of its own, overlapping in any way                       *)
(***************************************************************************)
ConcurrentArgs ==
    {[face_embedding |-> Some(FaceDim), text_embedding |-> Some(TextDim),
      w1 |-> Dec(50), w2 |-> Dec(50), top_n |-> MaxTopN,
      limit_per_collection |-> MaxPool, constraints |-> NoConstraints],
     [face_embedding |-> Some(FaceDim), text_embedding |-> None,
      w1 |-> Dec(100), w2 |-> Zero, top_n |-> 1,
      limit_per_collection |-> 1, constraints |-> NoConstraints],
     [face_embedding |-> None, text_embedding |-> Some(TextDim),
      w1 |-> Dec(60), w2 |-> Dec(40), top_n |-> MaxTopN,
      limit_per_collection |-> 1, constraints |-> NoConstraints]}

InitConcurrent ==
    /\ index \in [face : Collections("face"), text : Collections("text")]
    /\ \E args \in [Calls -> ConcurrentArgs] :
        /\ face_embedding = [c \in Calls |-> args[c].face_embedding]
        /\ text_embedding = [c \in Calls |-> args[c].text_embedding]
        /\ gender = [c \in Calls |-> args[c].constraints.gender]
        /\ age_min = [c \in Calls |-> args[c].constraints.age_min]
        /\ age_max = [c \in Calls |-> args[c].constraints.age_max]
        /\ height_min = [c \in Calls |-> args[c].constraints.height_min]
        /\ height_max = [c \in Calls |-> args[c].constraints.height_max]
        /\ w1 = [c \in Calls |-> args[c].w1]
        /\ w2 = [c \in Calls |-> args[c].w2]
        /\ top_n = [c \in Calls |-> args[c].top_n]
        /\ limit_per_collection = [c \in Calls |-> args[c].limit_per_collection]
    /\ face_results = [c \in Calls |-> <<>>]
    /\ text_results = [c \in Calls |-> <<>>]
    /\ Fresh(Calls, "validate")
    /\ NoComparison

SpecConcurrent == InitConcurrent /\ [][Next]_vars

(***************************************************************************)
(* combine_results called directly, on any two result lists                *)
(***************************************************************************)
\* result entries as the search functions format them
\* the payload a result entry of the given list carries for pid.  Each
\* collection stores its own copy of the display scalars, so the two copies of
\* one PID need not agree: here the text copy was written a year later.
Payload(source, pid) ==
    IF source = "text" THEN [Person(pid) EXCEPT !.age = @ + 1] ELSE Person(pid)

ResultEntries(source) ==
    {[pid |-> pid, score |-> score, age |-> Payload(source, pid).age,
      gender |-> Payload(source, pid).gender,
      height_cm |-> Payload(source, pid).height_cm,
      source |-> source] : pid \in PIDs, score \in Scores}

SeqsUpTo(S, n) == UNION {[1..k -> S] : k \in 0..n}

\* (w1, w2) pairs of combine_results
FusionWeights ==
    {<<Dec(50), Dec(50)>>, <<Dec(60), Dec(40)>>, <<Dec(20), Dec(10)>>, <<Zero, Zero>>,
     <<Dec(30), Dec(-30)>>}
\* no list pair holds more than Cardinality(PIDs) candidates
FusionTopNs == (-1)..Min(MaxTopN, Cardinality(PIDs))

InitFusion ==
    /\ index = [face |-> <<>>, text |-> <<>>]
    /\ face_embedding = [c \in Calls |-> None]
    /\ text_embedding = [c \in Calls |-> None]
    /\ limit_per_collection = [c \in Calls |-> IdleInputs.limit_per_collection]
    /\ Constrained({}, NoConstraints)
    /\ \E face \in SeqsUpTo(ResultEntries("face"), MaxLen) :
       \E text \in SeqsUpTo(ResultEntries("text"), MaxLen - Len(face)) :
        /\ face_results = [c \in Calls |-> IF c = 1 THEN face ELSE <<>>]
        /\ text_results = [c \in Calls |-> IF c = 1 THEN text ELSE <<>>]
    /\ \E w \in FusionWeights, n \in FusionTopNs :
        /\ w1 = [c \in Calls |-> IF c = 1 THEN w[1] ELSE IdleInputs.w1]
        /\ w2 = [c \in Calls |-> IF c = 1 THEN w[2] ELSE IdleInputs.w2]
        /\ top_n = [c \in Calls |-> IF c = 1 THEN n ELSE IdleInputs.top_n]
    /\ Fresh({1}, "fusion_call")
    /\ NoComparison

\* combine_results(face_results, text_results, w1, w2, top_n) runs and returns
CombineDirect(c) ==
    /\ pc[c] = "fusion_call"
    /\ combined_results' = [combined_results EXCEPT ![c] =
          combine_results(face_results[c], text_results[c], w1[c], w2[c], top_n[c])]
    /\ pc' = [pc EXCEPT ![c] = "fusion_return"]
    /\ UNCHANGED <<inputs, workers, face_results, text_results, raised>>

NextFusion == \E c \in Calls : CombineDirect(c)

SpecFusion == InitFusion /\ [][NextFusion]_vars

\* combine_results on any two result lists, under weights that make combined
\* scores tie: the order of the output and the fields it carries
FusionOrderWeights == {<<Dec(50), Dec(50)>>, <<Dec(60), Dec(40)>>}
FusionOrderTopNs == {1, MaxTopN}

InitFusionOrder ==
    /\ index = [face |-> <<>>, text |-> <<>>]
    /\ face_embedding = [c \in Calls |-> None]
    /\ text_embedding = [c \in Calls |-> None]
    /\ limit_per_collection = [c \in Calls |-> IdleInputs.limit_per_collection]
    /\ Constrained({}, NoConstraints)
    /\ \E face \in SeqsUpTo(ResultEntries("face"), MaxLen) :
       \E text \in SeqsUpTo(ResultEntries("text"), MaxLen - Len(face)) :
        /\ face_results = [c \in Calls |-> IF c = 1 THEN face ELSE <<>>]
        /\ text_results = [c \in Calls |-> IF c = 1 THEN text ELSE <<>>]
    /\ \E w \in FusionOrderWeights, n \in FusionOrderTopNs :
        /\ w1 = [c \in Calls |-> IF c = 1 THEN w[1] ELSE IdleInputs.w1]
        /\ w2 = [c \in Calls |-> IF c = 1 THEN w[2] ELSE IdleInputs.w2]
        /\ top_n = [c \in Calls |-> IF c = 1 THEN n ELSE IdleInputs.top_n]
    /\ Fresh({1}, "fusion_call")
    /\ NoComparison

SpecFusionOrder == InitFusionOrder /\ [][NextFusion]_vars

(***************************************************************************)
(* create_metadata_filter called directly, on any five arguments           *)
(***************************************************************************)
FilterGenders == {None, Some(""), Some("Male"), Some("male")}
FilterAgeMins == {None, Some(0), Some(25)}
FilterAgeMaxs == {None, Some(0), Some(35)}
FilterHeightMins == {None, Some(0), Some(160)}
FilterHeightMaxs == {None, Some(0), Some(180)}

InitFilter ==
    /\ index = [face |-> <<>>, text |-> <<>>]
    /\ face_embedding = [c \in Calls |-> None]
    /\ text_embedding = [c \in Calls |-> None]
    /\ w1 = [c \in Calls |-> IdleInputs.w1]
    /\ w2 = [c \in Calls |-> IdleInputs.w2]
    /\ top_n = [c \in Calls |-> IdleInputs.top_n]
    /\ limit_per_collection = [c \in Calls |-> IdleInputs.limit_per_collection]
    /\ \E g \in FilterGenders, amin \in FilterAgeMins, amax \in FilterAgeMaxs,
          hmin \in FilterHeightMins, hmax \in FilterHeightMaxs :
        Constrained({1}, [gender |-> g, age_min |-> amin, age_max |-> amax,
                          height_min |-> hmin, height_max |-> hmax])
    /\ face_results = [c \in Calls |-> <<>>]
    /\ text_results = [c \in Calls |-> <<>>]
    /\ Fresh({1}, "filter_call")
    /\ NoComparison

\* create_metadata_filter(gender, age_min, age_max, height_min, height_max) runs
\* and returns
CreateFilterDirect(c) ==
    /\ pc[c] = "filter_call"
    /\ metadata_filter' = [metadata_filter EXCEPT ![c] =
          create_metadata_filter(gender[c], age_min[c], age_max[c],
                                 height_min[c], height_max[c])]
    /\ pc' = [pc EXCEPT ![c] = "filter_return"]
    /\ UNCHANGED <<inputs, future_face, future_text, searches, search_failed,
                   completion_order, face_results, text_results, combined_results,
                   raised>>

NextFilter == \E c \in Calls : CreateFilterDirect(c)

SpecFilter == InitFilter /\ [][NextFilter]_vars

(***************************************************************************)
(* compare_physical_attributes called directly, on any two records         *)
(***************************************************************************)
MpAges == {None, Some(0), Some(40)}
UidbAges == {None, Some(3), Some(44), Some(45), Some(46)}
MpGenders == {None, Some(""), Some("Male")}
UidbGenders == {None, Some("Male"), Some("male"), Some("Female")}
MpHeights == {None, Some(170)}
UidbHeights == {None, Some(165), Some(172), Some(176)}
MpHairColors == {None, Some("Black")}
UidbHairColors == {None, Some("black"), Some("Brown")}
MpEyeColors == {None, Some("Brown")}
UidbEyeColors == {None, Some("brown")}

InitCompare ==
    /\ index = [face |-> <<>>, text |-> <<>>]
    /\ face_embedding = [c \in Calls |-> None]
    /\ text_embedding = [c \in Calls |-> None]
    /\ w1 = [c \in Calls |-> IdleInputs.w1]
    /\ w2 = [c \in Calls |-> IdleInputs.w2]
    /\ top_n = [c \in Calls |-> IdleInputs.top_n]
    /\ limit_per_collection = [c \in Calls |-> IdleInputs.limit_per_collection]
    /\ Constrained({}, NoConstraints)
    /\ face_results = [c \in Calls |-> <<>>]
    /\ text_results = [c \in Calls |-> <<>>]
    /\ Fresh({1}, "compare_call")
    /\ mp_record \in [age : MpAges, gender : MpGenders, height_cm : MpHeights,
                      hair_color : MpHairColors, eye_color : MpEyeColors]
    /\ uidb_record \in [estimated_age : UidbAges, gender : UidbGenders,
                        height_cm : UidbHeights, hair_color : UidbHairColors,
                        eye_color : UidbEyeColors]
    /\ scores = EmptyDict

\* compare_physical_attributes(mp_record, uidb_record) runs and returns
CompareDirect(c) ==
    /\ pc[c] = "compare_call"
    /\ scores' = compare_physical_attributes(mp_record, uidb_record)
    /\ pc' = [pc EXCEPT ![c] = "compare_return"]
    /\ UNCHANGED <<index, face_embedding, text_embedding, gender, age_min, age_max,
                   height_min, height_max, w1, w2, top_n, limit_per_collection,
                   mp_record, uidb_record, workers, face_results, text_results,
                   combined_results, raised, abandoned, store>>

NextCompare == \E c \in Calls : CompareDirect(c)

SpecCompare == InitCompare /\ [][NextCompare]_vars

(***************************************************************************)
(* main.py, POST /api/search-missing-person: the endpoint's call of        *)
(* search_and_combine                                                      *)
(***************************************************************************)
\* top_n of the form: any integer the client sends
EndpointTopNs == (0..MaxTopN) \cup {EndpointPoolLimit, EndpointPoolLimit + 1}

\* what the face extractor and the text embedder hand back: a vector of the
\* model's width, or None when there is no photo or the producer failed
EndpointFaceEmbeddings == {None, Some(FaceDim)}
EndpointTextEmbeddings == {None, Some(TextDim)}

\* a request has been received and its embeddings produced
InitEndpoint ==
    /\ index \in [face : Collections("face"), text : Collections("text")]
    /\ Constrained({1}, NoConstraints)
    /\ \E fe \in EndpointFaceEmbeddings, te \in EndpointTextEmbeddings,
          w \in CallWeights, n \in EndpointTopNs :
        /\ face_embedding = [c \in Calls |-> IF c = 1 THEN fe ELSE IdleInputs.face_embedding]
        /\ text_embedding = [c \in Calls |-> IF c = 1 THEN te ELSE IdleInputs.text_embedding]
        /\ w1 = [c \in Calls |-> IF c = 1 THEN w[1] ELSE IdleInputs.w1]
        /\ w2 = [c \in Calls |-> IF c = 1 THEN w[2] ELSE IdleInputs.w2]
        /\ top_n = [c \in Calls |-> IF c = 1 THEN n ELSE IdleInputs.top_n]
    /\ limit_per_collection =
          [c \in Calls |-> IF c = 1 THEN EndpointPoolLimit
                           ELSE IdleInputs.limit_per_collection]
    /\ face_results = [c \in Calls |-> <<>>]
    /\ text_results = [c \in Calls |-> <<>>]
    /\ Fresh({1}, "endpoint")
    /\ NoComparison

\* "3. Perform vector search": 400 when no embedding was produced, else the call
\* search_and_combine(..., gender=None, ..., top_n=top_n, limit_per_collection=50)
search_missing_person(c) ==
    /\ pc[c] = "endpoint"
    /\ IF face_embedding[c] = None /\ text_embedding[c] = None
       THEN /\ raised' = [raised EXCEPT ![c] = "HTTPException"]
            /\ pc' = [pc EXCEPT ![c] = "http_error"]
       ELSE /\ pc' = [pc EXCEPT ![c] = "validate"]
            /\ UNCHANGED raised
    /\ UNCHANGED <<inputs, workers, face_results, text_results, combined_results>>

NextEndpoint ==
    \/ \E c \in Calls : search_missing_person(c)
    \/ Next

SpecEndpoint == InitEndpoint /\ [][NextEndpoint]_vars

(***************************************************************************)
(* a client of the endpoint gives its request up while it is served        *)
(***************************************************************************)
InFlight(future) == future.state \in {"pending", "running"}

\* the searches of call c that are submitted and not settled
SearchesInFlight(c) ==
    {space \in {"face", "text"} :
        \/ space = "face" /\ InFlight(future_face[c])
        \/ space = "text" /\ InFlight(future_text[c])}

\* the client disconnects.  Nothing in search_missing_person, search_and_combine
\* or parallel_search observes it: the endpoint calls search_and_combine
\* synchronously, and parallel_search never calls cancel() on a future.
Abandon(c) ==
    /\ pc[c] \in {"endpoint", "validate", "submit_face", "submit_text", "collect_face",
                  "collect_text", "shutdown", "combine"}
    /\ abandoned[c] = None
    /\ abandoned' = [abandoned EXCEPT ![c] = Some(SearchesInFlight(c))]
    /\ UNCHANGED <<index, face_embedding, text_embedding, gender, age_min, age_max,
                   height_min, height_max, w1, w2, top_n, limit_per_collection,
                   comparator, workers, pc, face_results, text_results,
                   combined_results, raised, store>>

NextAbandon ==
    \/ \E c \in Calls : Abandon(c)
    \/ NextEndpoint

SpecAbandon == InitEndpoint /\ [][NextAbandon]_vars

(***************************************************************************)
(* add_missing_person, add_unidentified_body, add_preliminary_uidb         *)
(***************************************************************************)
retrieval == <<index, abandoned, face_embedding, text_embedding, gender, age_min, age_max,
               height_min, height_max, w1, w2, top_n, limit_per_collection, comparator,
               workers, pc, face_results, text_results, combined_results, raised>>

Rows == Len(tables["missing_persons"]) + Len(tables["unidentified_bodies"])
          + Len(tables["preliminary_uidb_reports"])

\* add_*(data): pid = self.generate_pid(table), the SELECT runs on the table as
\* it is now; the photos are saved under the pid
GeneratePidStep(h, table_name) ==
    /\ helper[h].state = "idle"
    /\ Rows + Cardinality({g \in Helpers : helper[g].state = "generated"}) < MaxRows
    /\ helper' = [helper EXCEPT ![h] =
          [state |-> "generated", table_name |-> table_name,
           pid |-> Some(generate_pid(table_name, tables[table_name], year)),
           returned |-> None]]
    /\ UNCHANGED <<tables, year, retrieval>>

\* cursor.execute(INSERT) and conn.commit(), then return pid; on sqlite3.Error
\* conn.rollback() and return None
InsertStepUnchecked(h) ==
    /\ helper[h].state = "generated"
    /\ LET t == helper[h].table_name
           pid == helper[h].pid[1]
       IN  /\ tables' = [tables EXCEPT ![t] = Append(@, pid)]
           /\ helper' = [helper EXCEPT ![h] = [IdleHelper EXCEPT !.returned = Some(pid),
                                                             !.state = "added"]]
    /\ UNCHANGED <<year, retrieval>>

InsertStep(h) ==
    /\ helper[h].state = "generated"
    /\ LET t == helper[h].table_name
           pid == helper[h].pid[1]
       IN  IF ViolatesUnique(tables[t], pid)
           THEN /\ helper' = [helper EXCEPT ![h] = [IdleHelper EXCEPT !.returned = None,
                                                                  !.state = "failed"]]
                /\ UNCHANGED tables
           ELSE /\ tables' = [tables EXCEPT ![t] = Append(@, pid)]
                /\ helper' = [helper EXCEPT ![h] = [IdleHelper EXCEPT !.returned = Some(pid),
                                                                  !.state = "added"]]
    /\ UNCHANGED <<year, retrieval>>

\* the caller has the return value; the helper takes the next call
NextCall(h) ==
    /\ helper[h].state \in {"added", "failed"}
    /\ helper' = [helper EXCEPT ![h] = IdleHelper]
    /\ UNCHANGED <<tables, year, retrieval>>

\* the calendar year changes
NewYear ==
    /\ year < MaxYear
    /\ year' = year + 1
    /\ UNCHANGED <<tables, helper, retrieval>>

InitStore ==
    /\ index = [face |-> <<>>, text |-> <<>>]
    /\ face_embedding = [c \in Calls |-> None]
    /\ text_embedding = [c \in Calls |-> None]
    /\ w1 = [c \in Calls |-> IdleInputs.w1]
    /\ w2 = [c \in Calls |-> IdleInputs.w2]
    /\ top_n = [c \in Calls |-> IdleInputs.top_n]
    /\ limit_per_collection = [c \in Calls |-> IdleInputs.limit_per_collection]
    /\ Constrained({}, NoConstraints)
    /\ face_results = [c \in Calls |-> <<>>]
    /\ text_results = [c \in Calls |-> <<>>]
    /\ Fresh({}, "idle")
    /\ NoComparison

NextStore ==
    \/ \E h \in Helpers, table_name \in TableNames : GeneratePidStep(h, table_name)
    \/ \E h \in Helpers : InsertStep(h)
    \/ \E h \in Helpers : NextCall(h)
    \/ NewYear

SpecStore == InitStore /\ [][NextStore]_vars

(***************************************************************************)
(* Vocabulary of the properties                                            *)
(***************************************************************************)
PidsOf(list) == {list[i].pid : i \in 1..Len(list)}
PidSeq(list) == [i \in 1..Len(list) |-> list[i].pid]
UnionPids(c) == PidsOf(face_results[c]) \cup PidsOf(text_results[c])
OutPids(c) == PidsOf(combined_results[c])
FusionReturned(c) == pc[c] = "fusion_return"
OnlyInFace(c, pid) == pid \in PidsOf(face_results[c]) \ PidsOf(text_results[c])
OnlyInText(c, pid) == pid \in PidsOf(text_results[c]) \ PidsOf(face_results[c])

\* score of the last entry of pid in list, 0 when it has none
LastScore(list, pid) ==
    LET at == {i \in 1..Len(list) : list[i].pid = pid}
    IN  IF at = {} THEN Zero
        ELSE list[CHOOSE i \in at : \A j \in at : j <= i].score

\* what the weighted sum of pid should be, from the arguments of the call
ExpectedScore(c, pid) ==
    LET total == FAdd(w1[c], w2[c])
        a == IF FLess(Zero, total) THEN FDiv(w1[c], total) ELSE Dec(50)
        b == IF FLess(Zero, total) THEN FDiv(w2[c], total) ELSE Dec(50)
    IN  FAdd(FMul(a, LastScore(face_results[c], pid)),
             FMul(b, LastScore(text_results[c], pid)))

\* PIDs other than pid whose expected score is not below that of pid
NotBelow(c, pid) ==
    LET mine == ExpectedScore(c, pid)
    IN  {q \in UnionPids(c) \ {pid} : ~FLess(ExpectedScore(c, q), mine)}

Entry(pid, score, source) ==
    [pid |-> pid, score |-> score, age |-> Payload(source, pid).age,
     gender |-> Payload(source, pid).gender,
     height_cm |-> Payload(source, pid).height_cm, source |-> source]

(***************************************************************************)
(* C1..C6: combine_results                                                 *)
(***************************************************************************)
\* C1: every PID of the output of combine_results is in one of the two lists, and
\* when top_n is at least the number of distinct PIDs the output PIDs are exactly
\* the union of the PIDs of the two lists.
C1_OutputIsUnion ==
    \A c \in Calls : FusionReturned(c) =>
        /\ OutPids(c) \subseteq UnionPids(c)
        /\ top_n[c] >= Cardinality(UnionPids(c)) => OutPids(c) = UnionPids(c)

C1_Witness ==
    /\ FusionReturned(1)
    /\ PidsOf(face_results[1]) # {}
    /\ PidsOf(text_results[1]) # {}
    /\ PidsOf(face_results[1]) \cap PidsOf(text_results[1]) = {}
    /\ top_n[1] >= Cardinality(UnionPids(1))
    /\ OutPids(1) = UnionPids(1)

BoundaryFace == <<Entry("MP-1", Dec(90), "face"), Entry("MP-2", Dec(70), "face")>>
BoundaryText == <<Entry("MP-2", Dec(80), "text"), Entry("UIDB-1", Dec(60), "text")>>
BoundaryResult == combine_results(BoundaryFace, BoundaryText, Dec(60), Dec(40), 3)

\* C2: with a positive weight sum, every returned candidate has combined_score =
\* w1/(w1+w2) * face_score + w2/(w1+w2) * text_score; the boundary scenario gives
\* MP-2 = 0.74, MP-1 = 0.54, UIDB-1 = 0.24.
C2_WeightedSum ==
    /\ \A c \in Calls : FusionReturned(c) /\ FLess(Zero, FAdd(w1[c], w2[c])) =>
        \A i \in 1..Len(combined_results[c]) :
            LET r == combined_results[c][i]
                total == FAdd(w1[c], w2[c])
            IN  r.combined_score =
                    FAdd(FMul(FDiv(w1[c], total), r.face_score),
                         FMul(FDiv(w2[c], total), r.text_score))
    /\ [i \in 1..Len(BoundaryResult) |->
            <<BoundaryResult[i].pid, BoundaryResult[i].combined_score>>]
       = << <<"MP-2", Dec(74)>>, <<"MP-1", Dec(54)>>, <<"UIDB-1", Dec(24)>> >>

C2_Witness ==
    /\ FusionReturned(1)
    /\ w1[1] = Dec(20) /\ w2[1] = Dec(10)
    /\ \E i \in 1..Len(combined_results[1]) :
        /\ combined_results[1][i].face_score = Dec(90)
        /\ combined_results[1][i].text_score = Dec(60)
        /\ combined_results[1][i].combined_score = Dec(80)

\* C3: the list combine_results returns is in descending order of combined_score.
C3_Descending ==
    \A c \in Calls : FusionReturned(c) =>
        \A i, j \in 1..Len(combined_results[c]) :
            i < j => ~FLess(combined_results[c][i].combined_score,
                            combined_results[c][j].combined_score)

\* the highest candidate was not the first one inserted: the sort moved it
C3_Witness ==
    /\ FusionReturned(1)
    /\ Len(combined_results[1]) >= 2
    /\ Len(face_results[1]) >= 1
    /\ combined_results[1][1].pid # face_results[1][1].pid
    /\ FLess(combined_results[1][2].combined_score, combined_results[1][1].combined_score)

\* C4: for top_n >= 0 the output is the first top_n entries of the full ranking:
\* it has min(top_n, distinct PIDs) entries and no PID left out scores strictly
\* higher than a PID kept.
C4_TopN ==
    \A c \in Calls : FusionReturned(c) /\ top_n[c] >= 0 =>
        LET out == combined_results[c]
            full == combine_results(face_results[c], text_results[c], w1[c], w2[c],
                                    Cardinality(UnionPids(c)))
        IN  /\ Len(out) = Min(top_n[c], Cardinality(UnionPids(c)))
            /\ Cardinality(OutPids(c)) = Len(out)
            /\ out = SubSeq(full, 1, Len(out))
            /\ \A p \in UnionPids(c) \ OutPids(c) : \A i \in 1..Len(out) :
                   ~FLess(out[i].combined_score, ExpectedScore(c, p))

\* truncation drops a candidate that scores strictly lower than every one kept
C4_Witness ==
    /\ FusionReturned(1)
    /\ top_n[1] = 2
    /\ Cardinality(UnionPids(1)) = 3
    /\ Len(combined_results[1]) = 2
    /\ \E p \in UnionPids(1) \ OutPids(1) :
           FLess(ExpectedScore(1, p), combined_results[1][2].combined_score)

\* C5: a PID in only one of the two lists gets score 0 for the other space and is
\* in the output whenever fewer than top_n other PIDs score at least as high.
C5_PartialPresence ==
    \A c \in Calls : FusionReturned(c) =>
        /\ \A i \in 1..Len(combined_results[c]) :
            LET r == combined_results[c][i]
            IN  /\ OnlyInFace(c, r.pid) => r.text_score = Zero
                /\ OnlyInText(c, r.pid) => r.face_score = Zero
        /\ ~ \E p \in UnionPids(c) \ OutPids(c) :
            /\ OnlyInFace(c, p) \/ OnlyInText(c, p)
            /\ Cardinality(NotBelow(c, p)) < top_n[c]

\* a face-only PID is returned ahead of a PID found in both lists
C5_Witness ==
    /\ FusionReturned(1)
    /\ Len(combined_results[1]) >= 2
    /\ OnlyInFace(1, combined_results[1][1].pid)
    /\ combined_results[1][1].text_score = Zero
    /\ combined_results[1][2].pid \in PidsOf(face_results[1]) \cap PidsOf(text_results[1])
    /\ FLess(Zero, combined_results[1][2].text_score)

\* C6: with w1 + w2 = 0, combine_results returns exactly what it returns for the
\* weights (0.5, 0.5) on the same lists and top_n.
C6_ZeroSumIsEqualFusion ==
    \A c \in Calls : FusionReturned(c) /\ FAdd(w1[c], w2[c]) = Zero =>
        combined_results[c] =
            combine_results(face_results[c], text_results[c], Dec(50), Dec(50), top_n[c])

C6_Witness ==
    /\ FusionReturned(1)
    /\ w1[1] = Dec(30) /\ w2[1] = Dec(-30)
    /\ Len(combined_results[1]) = 2
    /\ combined_results[1][1].combined_score = Dec(75)

(***************************************************************************)
(* C8..C10: search_and_combine, errors                                     *)
(***************************************************************************)
Invoked(c) ==
    pc[c] \notin {"idle", "fusion_call", "fusion_return", "filter_call", "filter_return",
                  "compare_call", "compare_return"}
NoVector(c) == face_embedding[c] = None /\ text_embedding[c] = None
NoSearchIssued(c) ==
    /\ searches[c] = [face |-> 0, text |-> 0]
    /\ future_face[c].state = "none"
    /\ future_text[c].state = "none"

\* C8: search_and_combine with both vectors absent raises ValueError; no index
\* search is ever issued and nothing is returned.  It raises for no other input.
C8_InvalidQuery ==
    \A c \in Calls : Invoked(c) =>
        /\ NoVector(c) =>
            /\ pc[c] \in {"validate", "raised"}
            /\ NoSearchIssued(c)
            /\ combined_results[c] = <<>>
            /\ face_results[c] = <<>> /\ text_results[c] = <<>>
        /\ pc[c] = "raised" <=> raised[c] = "ValueError"
        /\ pc[c] = "raised" => NoVector(c)

C8_Witness ==
    /\ pc[1] = "raised"
    /\ NoVector(1)
    /\ raised[1] = "ValueError"
    /\ index.face # <<>> /\ index.text # <<>>
    /\ top_n[1] > 0

\* the weight the code gives to the text space and to the face space
TextWeight(c) ==
    LET total == FAdd(w1[c], w2[c])
    IN  IF FLess(Zero, total) THEN FDiv(w2[c], total) ELSE Dec(50)
FaceWeight(c) ==
    LET total == FAdd(w1[c], w2[c])
    IN  IF FLess(Zero, total) THEN FDiv(w1[c], total) ELSE Dec(50)

FaceFailedTextSucceeded(c) ==
    /\ search_failed[c].face
    /\ searches[c].text = 1 /\ future_text[c].state = "done" /\ ~search_failed[c].text
TextFailedFaceSucceeded(c) ==
    /\ search_failed[c].text
    /\ searches[c].face = 1 /\ future_face[c].state = "done" /\ ~search_failed[c].face

\* the hits of a collection, as many as the pool limit allows
ExpectedHits(c, space) ==
    /\ PidsOf(future_face[c].result) \subseteq PidsOf(index.face)
    /\ PidsOf(future_text[c].result) \subseteq PidsOf(index.text)
    /\ space = "face" => Len(future_face[c].result) = Min(limit_per_collection[c], Len(index.face))
    /\ space = "text" => Len(future_text[c].result) = Min(limit_per_collection[c], Len(index.text))

\* C9: when the search of one space raises and that of the other succeeds, the
\* call raises nothing, the failed space is an empty list, the other search
\* completes with its hits, and the result holds the surviving candidates (all of
\* them when top_n allows) with combined_score = that space's normalised weight
\* times its score.
C9_OneSpaceFails ==
    \A c \in Calls : Invoked(c) =>
        /\ search_failed[c].face \/ search_failed[c].text => raised[c] = NONE
        /\ search_failed[c].face => future_face[c] = [state |-> "done", result |-> <<>>]
        /\ search_failed[c].text => future_text[c] = [state |-> "done", result |-> <<>>]
        /\ pc[c] = "done" /\ FaceFailedTextSucceeded(c) =>
            /\ face_results[c] = <<>>
            /\ text_results[c] = future_text[c].result
            /\ ExpectedHits(c, "text")
            /\ OutPids(c) \subseteq PidsOf(text_results[c])
            /\ top_n[c] >= Len(text_results[c]) => OutPids(c) = PidsOf(text_results[c])
            /\ \A i \in 1..Len(combined_results[c]) :
                LET r == combined_results[c][i]
                IN  /\ r.text_score = LastScore(text_results[c], r.pid)
                    /\ r.combined_score = FMul(TextWeight(c), r.text_score)
        /\ pc[c] = "done" /\ TextFailedFaceSucceeded(c) =>
            /\ text_results[c] = <<>>
            /\ face_results[c] = future_face[c].result
            /\ ExpectedHits(c, "face")
            /\ OutPids(c) \subseteq PidsOf(face_results[c])
            /\ top_n[c] >= Len(face_results[c]) => OutPids(c) = PidsOf(face_results[c])
            /\ \A i \in 1..Len(combined_results[c]) :
                LET r == combined_results[c][i]
                IN  /\ r.face_score = LastScore(face_results[c], r.pid)
                    /\ r.combined_score = FMul(FaceWeight(c), r.face_score)

\* the degraded scenario: the face collection holds points but its search fails,
\* the text search returns [(MP-1, 0.5)], and MP-1 is returned with 0.5 * 0.5
C9_Witness ==
    /\ pc[1] = "done"
    /\ FaceFailedTextSucceeded(1)
    /\ face_embedding[1] = Some(FaceDim)
    /\ index.face # <<>>
    /\ PidSeq(text_results[1]) = <<"MP-1">>
    /\ text_results[1][1].score = Dec(50)
    /\ PidSeq(combined_results[1]) = <<"MP-1">>
    /\ combined_results[1][1].combined_score = Dec(25)

\* C10: when a vector is supplied and both result lists come back empty, the call
\* returns an empty list and raises nothing, after having issued a search; the
\* call that raises (Invalid-Query) has issued none.
C10_EmptyIsSuccess ==
    \A c \in Calls : Invoked(c) =>
        /\ ~NoVector(c) => pc[c] # "raised" /\ raised[c] = NONE
        /\ pc[c] = "done" /\ face_results[c] = <<>> /\ text_results[c] = <<>> =>
            /\ combined_results[c] = <<>>
            /\ raised[c] = NONE
            /\ searches[c].face + searches[c].text >= 1
        /\ pc[c] = "raised" => NoSearchIssued(c)

\* both searches failed on an index that holds points for both spaces
C10_Witness ==
    /\ pc[1] = "done"
    /\ search_failed[1].face /\ search_failed[1].text
    /\ index.face # <<>> /\ index.text # <<>>
    /\ face_results[1] = <<>> /\ text_results[1] = <<>>
    /\ combined_results[1] = <<>>
    /\ raised[1] = NONE
    /\ top_n[1] > 0

(***************************************************************************)
(* C11..C14: search_and_combine, filter, pool limit, vector width, repeats *)
(***************************************************************************)
\* the filter that the scalar constraints supplied to call c describe
SuppliedFilter(c) ==
    create_metadata_filter(gender[c], age_min[c], age_max[c], height_min[c], height_max[c])

\* parallel_search of call c has built its filter
FilterBuilt(c) ==
    pc[c] \in {"submit_text", "collect_face", "collect_text", "shutdown", "combine", "done"}

\* C11: search_and_combine builds the metadata filter from the scalar constraints
\* the caller supplies and uses that filter for both searches, so every candidate
\* it returns satisfies all supplied constraints.
C11_FilterApplied ==
    \A c \in Calls : Invoked(c) =>
        /\ FilterBuilt(c) => metadata_filter[c] = SuppliedFilter(c)
        /\ pc[c] = "done" =>
            \A i \in 1..Len(combined_results[c]) :
                FilterAccepts(SuppliedFilter(c), combined_results[c][i])

\* a search of call c has been handed to the index
SearchIssued(c) == searches[c].face + searches[c].text >= 1

\* C12: in every search_and_combine invocation, those of the HTTP search endpoint
\* included, the pool limit passed to the searches is at least top_n.
C12_PoolAtLeastTopN ==
    \A c \in Calls : Invoked(c) /\ SearchIssued(c) =>
        limit_per_collection[c] >= top_n[c]

\* a supplied query vector has not the width of its collection
MalformedFace(c) ==
    face_embedding[c] # None /\ face_embedding[c][1] # CollectionWidth(face_collection)
MalformedText(c) ==
    text_embedding[c] # None /\ text_embedding[c][1] # CollectionWidth(text_collection)

\* C13: when a supplied query vector has not the width of its collection,
\* search_and_combine raises to its caller; the search of that space never ends
\* as a normal result without an error, and the call never returns a list.
C13_MalformedVectorRaises ==
    \A c \in Calls : Invoked(c) =>
        /\ MalformedFace(c) /\ future_face[c].state = "done" => raised[c] # NONE
        /\ MalformedText(c) /\ future_text[c].state = "done" => raised[c] # NONE
        /\ MalformedFace(c) \/ MalformedText(c) => pc[c] # "done"

\* the two calls were given the same arguments
SameArguments ==
    /\ face_embedding[1] = face_embedding[2] /\ text_embedding[1] = text_embedding[2]
    /\ gender[1] = gender[2]
    /\ age_min[1] = age_min[2] /\ age_max[1] = age_max[2]
    /\ height_min[1] = height_min[2] /\ height_max[1] = height_max[2]
    /\ w1[1] = w1[2] /\ w2[1] = w2[2]
    /\ top_n[1] = top_n[2]
    /\ limit_per_collection[1] = limit_per_collection[2]

\* the index answered the searches of the two calls alike: what failed in one
\* failed in the other
SameAnswers == search_failed[1] = search_failed[2]

\* C14: two calls of search_and_combine with identical arguments on an unchanged
\* index return the same list (same PIDs, same order, same scores), whatever the
\* order in which the searches of each call completed.
C14_Idempotent ==
    pc[1] = "done" /\ pc[2] = "done" /\ SameArguments /\ SameAnswers =>
        combined_results[1] = combined_results[2]

\* the searches completed in opposite orders in the two calls, and two candidates
\* tie, so that the order of insertion decides their rank
C14_Witness ==
    /\ pc[1] = "done" /\ pc[2] = "done"
    /\ SameArguments
    /\ search_failed[1] = [face |-> FALSE, text |-> FALSE]
    /\ search_failed[2] = [face |-> FALSE, text |-> FALSE]
    /\ completion_order[1] = <<"face", "text">>
    /\ completion_order[2] = <<"text", "face">>
    /\ Len(combined_results[1]) >= 2
    /\ combined_results[1][1].combined_score = combined_results[1][2].combined_score
    /\ OnlyInFace(1, combined_results[1][1].pid)
    /\ OnlyInText(1, combined_results[1][2].pid)
    /\ combined_results[1] = combined_results[2]

(***************************************************************************)
(* C15, C16: create_metadata_filter                                        *)
(***************************************************************************)
FilterReturned(c) == pc[c] = "filter_return"

\* the clauses of the returned filter on a key; none when there is no filter
Clauses(c, key) ==
    IF metadata_filter[c] = None THEN <<>>
    ELSE SelectSeq(metadata_filter[c][1], LAMBDA cond : cond.key = key)

ClauseCount(c) == IF metadata_filter[c] = None THEN 0 ELSE Len(metadata_filter[c][1])

AgeGiven(c) == age_min[c] # None \/ age_max[c] # None
HeightGiven(c) == height_min[c] # None \/ height_max[c] # None

\* the filter has one clause per field given and no other clause, and "no filter"
\* exactly when no field is given
OneClausePerGiven(c, genderGiven) ==
    /\ metadata_filter[c] = None <=> ~(genderGiven \/ AgeGiven(c) \/ HeightGiven(c))
    /\ Len(Clauses(c, "gender")) = (IF genderGiven THEN 1 ELSE 0)
    /\ Len(Clauses(c, "age")) = (IF AgeGiven(c) THEN 1 ELSE 0)
    /\ Len(Clauses(c, "height_cm")) = (IF HeightGiven(c) THEN 1 ELSE 0)
    /\ ClauseCount(c) = Len(Clauses(c, "gender")) + Len(Clauses(c, "age"))
                        + Len(Clauses(c, "height_cm"))
    /\ raised[c] = NONE

\* C15: create_metadata_filter returns "no filter" exactly when every input is
\* absent (None); otherwise a conjunction with exactly one clause for each of
\* gender, age and height that has an input which is not None; it never raises.
C15_Original ==
    \A c \in Calls : FilterReturned(c) => OneClausePerGiven(c, gender[c] # None)

\* C15, amended: the same, where a gender that is the empty string counts as
\* absent: gender contributes a clause exactly when it is a non-empty string.
C15_NoFilterIffNothingGiven ==
    \A c \in Calls : FilterReturned(c) =>
        OneClausePerGiven(c, gender[c] # None /\ gender[c] # Some(""))

\* gender "" and an age bound of 0: one clause, on age
C15_Witness ==
    /\ FilterReturned(1)
    /\ gender[1] = Some("") /\ age_min[1] = Some(0) /\ age_max[1] = None
    /\ height_min[1] = None /\ height_max[1] = None
    /\ ClauseCount(1) = 1
    /\ Len(Clauses(1, "age")) = 1

\* the clause on key carries exactly the bounds lo and hi, when one is given
RangeClause(c, key, lo, hi) ==
    lo # None \/ hi # None =>
        /\ Len(Clauses(c, key)) = 1
        /\ Clauses(c, key)[1].match = None
        /\ Clauses(c, key)[1].gte # None <=> lo # None
        /\ Clauses(c, key)[1].lte # None <=> hi # None
        /\ Clauses(c, key)[1].gte = lo
        /\ Clauses(c, key)[1].lte = hi

\* C16: the age clause and the height clause carry a lower bound (>=) exactly
\* when the min input is given and an upper bound (<=) exactly when the max input
\* is given, a given bound of 0 included, with the values given.
C16_RangeBounds ==
    \A c \in Calls : FilterReturned(c) =>
        /\ RangeClause(c, "age", age_min[c], age_max[c])
        /\ RangeClause(c, "height_cm", height_min[c], height_max[c])

\* age >= 0 open above, height <= 180 open below
C16_Witness ==
    /\ FilterReturned(1)
    /\ age_min[1] = Some(0) /\ age_max[1] = None
    /\ height_min[1] = None /\ height_max[1] = Some(180)
    /\ Clauses(1, "age") = <<[key |-> "age", match |-> None, gte |-> Some(0), lte |-> None]>>
    /\ Clauses(1, "height_cm") =
          <<[key |-> "height_cm", match |-> None, gte |-> None, lte |-> Some(180)]>>

(***************************************************************************)
(* C17..C20: compare_physical_attributes                                   *)
(***************************************************************************)
CompareReturned == pc[1] = "compare_return"

\* the match flags of the returned dict, and those that are true
FlagsEvaluated == DOMAIN scores \cap MatchKeys
FlagsTrue == {k \in FlagsEvaluated : scores[k]}

\* C17: overall_match_percentage = (number of true match flags) / (number of
\* match flags evaluated) * 100, and 0 when no flag was evaluated; it is always
\* between 0 and 100.
C17_OverallPercentage ==
    CompareReturned =>
        /\ "overall_match_percentage" \in DOMAIN scores
        /\ FlagsEvaluated # {} =>
              FMul(scores["overall_match_percentage"],
                   FromInt(Cardinality(FlagsEvaluated)))
              = FromInt(100 * Cardinality(FlagsTrue))
        /\ FlagsEvaluated = {} => scores["overall_match_percentage"] = Zero
        /\ ~FLess(scores["overall_match_percentage"], Zero)
        /\ ~FLess(FromInt(100), scores["overall_match_percentage"])

\* one flag of three is true: 100/3 percent
C17_Witness ==
    /\ CompareReturned
    /\ Cardinality(FlagsEvaluated) = 3
    /\ Cardinality(FlagsTrue) = 1
    /\ scores["overall_match_percentage"] = Rat(100, 3)

\* a record carries a number for a field; a string that is not empty
CarriesNumber(v) == v # None
CarriesString(v) == v # None /\ v[1] # ""

\* with both numbers carried, the flag and the difference are in the dict, the
\* flag is true exactly when the numbers are at most 5 apart, and the difference
\* is their absolute difference
WithinFive(a, b, match_key, difference_key) ==
    CarriesNumber(a) /\ CarriesNumber(b) =>
        /\ match_key \in DOMAIN scores
        /\ difference_key \in DOMAIN scores
        /\ scores[match_key] <=> (a[1] - b[1] <= 5 /\ b[1] - a[1] <= 5)
        /\ scores[difference_key] = (IF a[1] >= b[1] THEN a[1] - b[1] ELSE b[1] - a[1])

ScenarioA == [age |-> Some(40), gender |-> Some("Male"), height_cm |-> Some(170),
              hair_color |-> None, eye_color |-> None]
ScenarioB == [estimated_age |-> Some(44), gender |-> Some("Male"),
              height_cm |-> Some(172), hair_color |-> None, eye_color |-> None]

\* C18: when both ages are present, age_match is true exactly when
\* |age_A - age_B| <= 5 and age_difference is that absolute difference; the
\* same for the heights with height_match and height_difference; ages 40/44,
\* heights 170/172 and the same gender give all flags true and 100 percent.
C18_WithinFive ==
    /\ CompareReturned =>
        /\ WithinFive(mp_record.age, uidb_record.estimated_age,
                      "age_match", "age_difference")
        /\ WithinFive(mp_record.height_cm, uidb_record.height_cm,
                      "height_match", "height_difference")
    /\ compare_physical_attributes(ScenarioA, ScenarioB)
       = [age_match |-> TRUE, age_difference |-> 4, gender_match |-> TRUE,
          height_match |-> TRUE, height_difference |-> 2,
          overall_match_percentage |-> FromInt(100)]

\* an evaluated flag of a string field is true exactly when the two values are
\* equal ignoring letter case
EqualIgnoringCase(a, b, match_key) ==
    match_key \in DOMAIN scores => (scores[match_key] <=> Lower(a[1]) = Lower(b[1]))

\* C19: gender_match, hair_color_match and eye_color_match are each true exactly
\* when the two records' values for the field are equal ignoring letter case.
C19_IgnoringCase ==
    CompareReturned =>
        /\ EqualIgnoringCase(mp_record.gender, uidb_record.gender, "gender_match")
        /\ EqualIgnoringCase(mp_record.hair_color, uidb_record.hair_color,
                             "hair_color_match")
        /\ EqualIgnoringCase(mp_record.eye_color, uidb_record.eye_color,
                             "eye_color_match")

\* the match flags of the fields for which both records carry a value
FlagsOfCarriedFields ==
    {k \in MatchKeys :
        \/ k = "age_match" /\ CarriesNumber(mp_record.age)
                           /\ CarriesNumber(uidb_record.estimated_age)
        \/ k = "height_match" /\ CarriesNumber(mp_record.height_cm)
                              /\ CarriesNumber(uidb_record.height_cm)
        \/ k = "gender_match" /\ CarriesString(mp_record.gender)
                              /\ CarriesString(uidb_record.gender)
        \/ k = "hair_color_match" /\ CarriesString(mp_record.hair_color)
                                  /\ CarriesString(uidb_record.hair_color)
        \/ k = "eye_color_match" /\ CarriesString(mp_record.eye_color)
                                 /\ CarriesString(uidb_record.eye_color)}

\* C20: for each of the five fields a match flag is in the output exactly when
\* both records carry a value for the field; a field absent on either side has no
\* flag and is not counted in the denominator of the percentage.
C20_FlagIffBothCarry ==
    CompareReturned =>
        /\ FlagsEvaluated = FlagsOfCarriedFields
        /\ FlagsOfCarriedFields # {} =>
              FMul(scores["overall_match_percentage"],
                   FromInt(Cardinality(FlagsOfCarriedFields)))
              = FromInt(100 * Cardinality(FlagsTrue))

(***************************************************************************)
(* C21..C26: search_and_combine, single modality and scheduling            *)
(***************************************************************************)
TextOnly(c) ==
    /\ face_embedding[c] = None /\ text_embedding[c] # None
    /\ w1[c] = Zero /\ w2[c] = Dec(100)
FaceOnly(c) ==
    /\ face_embedding[c] # None /\ text_embedding[c] = None
    /\ w1[c] = Dec(100) /\ w2[c] = Zero

\* the points of a collection by descending similarity to the query
IndexOrder(space) == PidSeq(RankPoints(<<>>, index[space]))

\* the output of call c is the list results in its order, cut to top_n, each
\* candidate scored with its score in that list; and the ranking of the whole
\* collection cut to top_n when the pool limit is not below top_n
SingleSpaceOutput(c, results, space) ==
    /\ PidSeq(combined_results[c]) = PidSeq(PySlicePrefix(results, top_n[c]))
    /\ \A i \in 1..Len(combined_results[c]) :
          /\ combined_results[c][i].combined_score = results[i].score
          /\ results[i].score = StoredScore(space, results[i].pid)
    /\ limit_per_collection[c] >= top_n[c] =>
          PidSeq(combined_results[c]) = PySlicePrefix(IndexOrder(space), top_n[c])

\* C21: in a call with only one query vector and weight 0 for the other space
\* (text only with w1 = 0, w2 = 1; face only with w1 = 1, w2 = 0), every returned
\* candidate's combined_score is its score in the searched space, and the order
\* returned is the index's descending-similarity order for that space, cut to
\* top_n.
C21_SingleModality ==
    \A c \in Calls : Invoked(c) /\ pc[c] = "done" =>
        /\ TextOnly(c) /\ ~search_failed[c].text =>
              SingleSpaceOutput(c, text_results[c], "text")
        /\ FaceOnly(c) /\ ~search_failed[c].face =>
              SingleSpaceOutput(c, face_results[c], "face")

\* text only: MP-2 (0.9) was stored after MP-1 (0.5) and is the one returned
C21_Witness ==
    /\ pc[1] = "done"
    /\ TextOnly(1) /\ ~search_failed[1].text
    /\ PidSeq(index.text) = <<"MP-1", "MP-2">>
    /\ top_n[1] = 1 /\ limit_per_collection[1] = 2
    /\ PidSeq(combined_results[1]) = <<"MP-2">>
    /\ combined_results[1][1].combined_score = Dec(90)

\* fusion of call c is about to run, or has run
FusionStarted(c) == pc[c] \in {"combine", "done"}

\* a submitted search has settled and the caller holds what it settled with: its
\* hits, or the empty list when it failed
SettledAndJoined(future, failed, results) ==
    /\ Settled(future)
    /\ future.state = "done" => results = future.result
    /\ future.state = "done" /\ failed => results = <<>>
    /\ future.state = "none" => results = <<>>

\* C22: within one call, fusion never starts before every search the call
\* submitted has settled, by returning a list or by failing into the empty list.
C22_FusionAfterSettled ==
    \A c \in Calls : Invoked(c) /\ FusionStarted(c) =>
        /\ face_embedding[c] # None => future_face[c].state = "done"
        /\ text_embedding[c] # None => future_text[c].state = "done"
        /\ SettledAndJoined(future_face[c], search_failed[c].face, face_results[c])
        /\ SettledAndJoined(future_text[c], search_failed[c].text, text_results[c])

\* fusion is about to start; the text search completed first and returned hits,
\* the face search failed after it
C22_Witness ==
    /\ pc[1] = "combine"
    /\ completion_order[1] = <<"text", "face">>
    /\ search_failed[1].face /\ ~search_failed[1].text
    /\ face_results[1] = <<>>
    /\ text_results[1] # <<>>

\* nothing was asked of a space: no future, no search, no failure, an empty list
SpaceUntouched(future, issued, failed, results) ==
    /\ future = NoFuture
    /\ issued = 0
    /\ ~failed
    /\ results = <<>>

\* C23: in parallel_search a space whose query vector is absent yields an empty
\* list without error and no search is issued to its collection; a search is
\* issued to a collection only if its query vector was supplied.
C23_AbsentSpaceNotSearched ==
    \A c \in Calls : Invoked(c) =>
        /\ face_embedding[c] = None =>
              SpaceUntouched(future_face[c], searches[c].face,
                             search_failed[c].face, face_results[c])
        /\ text_embedding[c] = None =>
              SpaceUntouched(future_text[c], searches[c].text,
                             search_failed[c].text, text_results[c])
        /\ (face_embedding[c] = None) # (text_embedding[c] = None) => raised[c] = NONE
        /\ searches[c].face >= 1 \/ future_face[c] # NoFuture => face_embedding[c] # None
        /\ searches[c].text >= 1 \/ future_text[c] # NoFuture => text_embedding[c] # None

\* a text-only call has returned candidates; the face collection holds points
\* and was never searched
C23_Witness ==
    /\ pc[1] = "done"
    /\ face_embedding[1] = None /\ text_embedding[1] = Some(TextDim)
    /\ index.face # <<>>
    /\ searches[1] = [face |-> 0, text |-> 1]
    /\ future_face[1] = NoFuture
    /\ face_results[1] = <<>>
    /\ combined_results[1] # <<>>
    /\ raised[1] = NONE

\* C24: within one call each collection is searched at most once; a search
\* that failed (error or timeout) has settled with the empty list and was not
\* issued again.
C24_NoRetry ==
    \A c \in Calls : Invoked(c) =>
        /\ searches[c].face <= 1 /\ searches[c].text <= 1
        /\ search_failed[c].face =>
              /\ searches[c].face = 1
              /\ future_face[c] = [state |-> "done", result |-> <<>>]
        /\ search_failed[c].text =>
              /\ searches[c].text = 1
              /\ future_text[c] = [state |-> "done", result |-> <<>>]
        /\ Len(completion_order[c]) <= 2

\* the text search of a well-formed vector failed on a collection that holds
\* points; the call ended with one search issued per collection
C24_Witness ==
    /\ pc[1] = "done"
    /\ face_embedding[1] = Some(FaceDim) /\ text_embedding[1] = Some(TextDim)
    /\ index.text # <<>>
    /\ search_failed[1].text /\ ~search_failed[1].face
    /\ searches[1] = [face |-> 1, text |-> 1]
    /\ text_results[1] = <<>>
    /\ combined_results[1] # <<>>

\* everything call c holds: its arguments, its locals, its futures, its result
PerCall(c) ==
    <<pc[c], face_embedding[c], text_embedding[c], gender[c], age_min[c], age_max[c],
      height_min[c], height_max[c], w1[c], w2[c], top_n[c], limit_per_collection[c],
      metadata_filter[c], future_face[c], future_text[c], face_results[c],
      text_results[c], combined_results[c], raised[c], searches[c],
      search_failed[c], completion_order[c]>>

\* what a search of call c returns when the call runs alone on the index, given
\* whether the index answered it
AloneFace(c) ==
    IF face_embedding[c] = None THEN <<>>
    ELSE search_face_embeddings(face_embedding[c], limit_per_collection[c], None,
                                ~search_failed[c].face)
AloneText(c) ==
    IF text_embedding[c] = None THEN <<>>
    ELSE search_text_embeddings(text_embedding[c], limit_per_collection[c], None,
                                ~search_failed[c].text)

\* what call c returns when it runs alone
Alone(c) == combine_results(AloneFace(c), AloneText(c), w1[c], w2[c], top_n[c])

\* C25: in any interleaving of two calls of search_and_combine on one instance
\* and an unchanged index, each call returns what it returns when run alone, and
\* no step of one call changes anything the other call holds, nor the index.
C25_NoInterference ==
    /\ [](\A c \in Calls : pc[c] = "done" =>
            /\ face_results[c] = AloneFace(c)
            /\ text_results[c] = AloneText(c)
            /\ combined_results[c] = Alone(c))
    /\ [][/\ index' = index
          /\ \E c \in Calls : \A d \in Calls \ {c} : PerCall(d)' = PerCall(d)]_vars

\* call 1 has returned while a search of call 2, made with other arguments, is
\* still running
C25_Witness ==
    /\ pc[1] = "done"
    /\ pc[2] \in {"collect_face", "collect_text"}
    /\ future_text[2].state = "running"
    /\ face_embedding[1] # None /\ face_embedding[2] = None
    /\ top_n[1] # top_n[2]
    /\ combined_results[1] # <<>>
    /\ combined_results[1] = Alone(1)

\* the caller of c gave the request up while a search was in flight
AbandonedInFlight(c) == abandoned[c] # None /\ abandoned[c][1] # {}

\* C26: when the caller abandons a request while searches are in flight, those
\* searches are cancelled, so none of them completes, and no fusion result is
\* returned for the request.
C26_AbandonCancels ==
    \A c \in Calls : AbandonedInFlight(c) =>
        /\ "face" \in abandoned[c][1] => future_face[c].state # "done"
        /\ "text" \in abandoned[c][1] => future_text[c].state # "done"
        /\ pc[c] # "done"
        /\ combined_results[c] = <<>>

(***************************************************************************)
(* C27, C29, C30: order of ties, duplicates and display scalars            *)
(***************************************************************************)
\* index of the first entry of pid in list (pid occurs in list)
FirstAt(list, pid) ==
    CHOOSE i \in 1..Len(list) :
        list[i].pid = pid /\ \A j \in 1..(i - 1) : list[j].pid # pid

\* place of pid in the order of insertion: the face list first, then the text list
InsertionRank(c, pid) ==
    IF pid \in PidsOf(face_results[c]) THEN FirstAt(face_results[c], pid)
    ELSE Len(face_results[c]) + FirstAt(text_results[c], pid)

\* C27: candidates of combine_results with equal combined scores keep their
\* insertion order in the output: the PIDs of the face list in face-list order
\* first, then the PIDs only in the text list in text-list order.
C27_TiesKeepInsertionOrder ==
    \A c \in Calls : FusionReturned(c) =>
        \A i, j \in 1..Len(combined_results[c]) :
            (i < j /\ combined_results[c][i].combined_score
                        = combined_results[c][j].combined_score)
            => InsertionRank(c, combined_results[c][i].pid)
                 < InsertionRank(c, combined_results[c][j].pid)

\* a tie between a PID of the face list and a PID only in the text list, and a
\* tie between two PIDs of the face list, both in one output
C27_Witness ==
    \E c \in Calls :
        /\ FusionReturned(c)
        /\ Len(combined_results[c]) = 3
        /\ \A i \in 1..3 : combined_results[c][i].combined_score
                             = combined_results[c][1].combined_score
        /\ ~ OnlyInText(c, combined_results[c][1].pid)
        /\ ~ OnlyInText(c, combined_results[c][2].pid)
        /\ OnlyInText(c, combined_results[c][3].pid)

\* number of entries of pid in list
Occurrences(list, pid) == Cardinality({i \in 1..Len(list) : list[i].pid = pid})

\* C29: every PID appears at most once in the output of combine_results, also
\* when it is in both lists or several times in one list; of several entries of
\* a PID in one list the score of the last one is the score used.
C29_OncePerPidLastScore ==
    \A c \in Calls : FusionReturned(c) =>
        /\ \A pid \in PIDs : Occurrences(combined_results[c], pid) <= 1
        /\ \A i \in 1..Len(combined_results[c]) :
            LET out == combined_results[c][i]
            IN  /\ out.face_score = LastScore(face_results[c], out.pid)
                /\ out.text_score = LastScore(text_results[c], out.pid)

\* a PID twice in the face list with two scores, and in the text list as well
C29_Witness ==
    \E c \in Calls :
        /\ FusionReturned(c)
        /\ face_results[c] = <<Entry("MP-1", Dec(90), "face"), Entry("MP-1", Dec(60), "face")>>
        /\ text_results[c] = <<Entry("MP-1", Dec(90), "text")>>
        /\ Len(combined_results[c]) = 1
        /\ combined_results[c][1].face_score = Dec(60)

\* the entry that introduced pid: its first entry in the face list when it has
\* one, otherwise its first entry in the text list
Introducing(c, pid) ==
    IF pid \in PidsOf(face_results[c])
    THEN face_results[c][FirstAt(face_results[c], pid)]
    ELSE text_results[c][FirstAt(text_results[c], pid)]

\* C30: the display scalars (age, gender, height_cm) of an output candidate of
\* combine_results are those of the entry that introduced its PID; a later
\* entry of the PID changes its score only.
C30_DisplayOfFirstEntry ==
    \A c \in Calls : FusionReturned(c) =>
        \A i \in 1..Len(combined_results[c]) :
            LET out == combined_results[c][i]
                first == Introducing(c, out.pid)
            IN  /\ out.age = first.age
                /\ out.gender = first.gender
                /\ out.height_cm = first.height_cm

\* a PID in both lists with two payloads: the output carries the face payload
\* and the text score
C30_Witness ==
    \E c \in Calls :
        /\ FusionReturned(c)
        /\ \E i \in 1..Len(combined_results[c]) :
            LET out == combined_results[c][i]
            IN  /\ out.pid \in PidsOf(face_results[c]) \cap PidsOf(text_results[c])
                /\ out.age = Payload("face", out.pid).age
                /\ out.age # Payload("text", out.pid).age
                /\ out.text_score = LastScore(text_results[c], out.pid)
                /\ out.text_score # Zero
        /\ \E i \in 1..Len(combined_results[c]) :
            /\ OnlyInText(c, combined_results[c][i].pid)
            /\ combined_results[c][i].age
                 = Payload("text", combined_results[c][i].pid).age

(***************************************************************************)
(* C28: PIDs of the record store                                           *)
(***************************************************************************)
\* the rows of the store, each named by its table and its place in it
StoredRows == {<<t, i>> : t \in TableNames, i \in 1..MaxRows} \cap
              {r \in TableNames \X (1..MaxRows) : r[2] <= Len(tables[r[1]])}

PidOfRow(r) == tables[r[1]][r[2]]

====
